---- MODULE Spec2Model ----
(***************************************************************************)
(* Room signaling and membership coordinator of the video conference       *)
(* backend: src/backend/src/signaling.js (Socket.IO handlers, lobby Map),  *)
(* the room deletion route (routes/rooms.js) and the room directory        *)
(* (db/index.js).                                                          *)
(*                                                                         *)
(* Node runs every handler to its next `await` without interruption, so    *)
(* each async handler is two actions: the part before `await getRoom`      *)
(* (...Call) and the continuation (...Resume).  Synchronous handlers are   *)
(* one action.  `undefined` and `null` are both written Null: the code     *)
(* only tests these values for truthiness or with `??`.  The directory     *)
(* lookup answers, or fails inside join-room (JoinRoomThrow) or inside an  *)
(* owner-gated handler (OwnerActionThrow); a socket id is never used again *)
(* after its connection has gone, and a room id never after its row is     *)
(* deleted.  The upload route of recordings (routes/recordings.js) is the  *)
(* source of the recording notification.                                   *)
(***************************************************************************)
EXTENDS Naturals, Sequences, FiniteSets

\* ------------------------------------------------------------------ bounds
\* number of handlers that may be suspended on the directory at one time
MaxInFlight == 2

\* ------------------------------------------------------------ value sets
Null == "null"
\* socket ids, in a fixed enumeration order used only to list them
SocketIds == <<"s1", "s2", "s3">>
Conns == {SocketIds[i] : i \in 1..Len(SocketIds)}
Users == {"u1", "u2"}
RoomIds == {"r1", "r2"}
\* display names a client may pass
DisplayNames == {"Ann"}

VARIABLES
    rows,        \* ids of the rows of table `rooms`
    created_by,  \* rooms.created_by of every room id ever created
    sockets,     \* per connection: state, userId, displayName, roomId
    rooms,       \* io.sockets.adapter.rooms for room ids, in insertion order
    lobby,       \* the module-level Map roomId -> pending entries
    inflight,    \* handlers suspended at `await getRoom(...)`
    deleting,    \* DELETE requests suspended at `await deleteRoom(...)`
    op,          \* the handler step that ran last and the branch it took
    emitted      \* the events that step sent, in order

vars == <<rows, created_by, sockets, rooms, lobby, inflight, deleting, op, emitted>>

\* ---------------------------------------------------------------- helpers
Range(s) == {s[i] : i \in 1..Len(s)}

RECURSIVE IndexOf(_, _, _)
\* Array.prototype.findIndex on socketId, 0 for "not found" (JS: -1)
IndexOf(list, socketId, i) ==
    IF i > Len(list) THEN 0
    ELSE IF list[i].socketId = socketId THEN i
    ELSE IndexOf(list, socketId, i + 1)

\* Array.prototype.splice(idx, 1)
Splice(list, idx) ==
    [i \in 1..(Len(list) - 1) |-> IF i < idx THEN list[i] ELSE list[i + 1]]

\* Set.prototype.add on an insertion-ordered set
SetAdd(s, x) == IF x \in Range(s) THEN s ELSE Append(s, x)

\* Set.prototype.delete on an insertion-ordered set
SetDelete(s, x) == SelectSeq(s, LAMBDA y : y # x)

\* `!x` for a string argument: it is missing or the empty string
Falsy(x) == x \in {Null, ""}

Live(c) == c \in Conns /\ sockets[c].st = "live"

\* io.sockets.sockets.get(id): the socket if it is connected
SocketsGet(id) == IF id \in Conns /\ sockets[id].st = "live" THEN id ELSE Null

\* ------------------------------------------------------------ the lobby
\* lobby is a function whose DOMAIN is the set of keys of the Map
\* addToLobby without the duplicate check
addToLobbyAlways(L, roomId, socketId, userId, displayName) ==
    LET L1 == IF roomId \in DOMAIN L THEN L
              ELSE [k \in (DOMAIN L) \cup {roomId} |->
                       IF k = roomId THEN <<>> ELSE L[k]]
    IN  [L1 EXCEPT ![roomId] = Append(L1[roomId],
            [socketId |-> socketId, userId |-> userId,
             displayName |-> displayName])]

\* an add that puts the new entry at the head of the list
addToLobbyFront(L, roomId, socketId, userId, displayName) ==
    LET list == IF roomId \in DOMAIN L THEN L[roomId] ELSE <<>>
    IN  IF \E i \in 1..Len(list) : list[i].socketId = socketId THEN L
        ELSE [k \in (DOMAIN L) \cup {roomId} |->
                 IF k = roomId
                 THEN <<[socketId |-> socketId, userId |-> userId,
                         displayName |-> displayName]>> \o list
                 ELSE L[k]]

\* an add that writes back a list read before other adds: their entries
\* are lost
addToLobbyLost(L, roomId, socketId, userId, displayName) ==
    [k \in (DOMAIN L) \cup {roomId} |->
        IF k = roomId
        THEN <<[socketId |-> socketId, userId |-> userId,
                displayName |-> displayName]>>
        ELSE L[k]]

addToLobby(L, roomId, socketId, userId, displayName) ==
    LET L1 == IF roomId \in DOMAIN L THEN L
              ELSE [k \in (DOMAIN L) \cup {roomId} |->
                       IF k = roomId THEN <<>> ELSE L[k]]
        list == L1[roomId]
    IN  IF \E i \in 1..Len(list) : list[i].socketId = socketId THEN L1
        ELSE [L1 EXCEPT ![roomId] = Append(list,
                 [socketId |-> socketId, userId |-> userId,
                  displayName |-> displayName])]

\* removeFromLobby that removes nothing
removeFromLobbyKeep(L, roomId, socketId) == L

\* removeFromLobby without the clean-up of an emptied list
removeFromLobbyNoCleanup(L, roomId, socketId) ==
    IF roomId \notin DOMAIN L THEN L
    ELSE LET list == L[roomId]
             idx == IndexOf(list, socketId, 1)
         IN  [L EXCEPT ![roomId] = IF idx >= 1 THEN Splice(list, idx)
                                   ELSE list]

\* a remove that drops the whole list of the room
removeFromLobbyByRoom(L, roomId, socketId) ==
    [k \in (DOMAIN L) \ {roomId} |-> L[k]]

removeFromLobby(L, roomId, socketId) ==
    IF roomId \notin DOMAIN L THEN L
    ELSE LET list == L[roomId]
             idx == IndexOf(list, socketId, 1)
             list1 == IF idx >= 1 THEN Splice(list, idx) ELSE list
         IN  IF Len(list1) = 0
             THEN [k \in (DOMAIN L) \ {roomId} |-> L[k]]
             ELSE [L EXCEPT ![roomId] = list1]

getPendingForRoom(L, roomId) == IF roomId \in DOMAIN L THEN L[roomId] ELSE <<>>

\* --------------------------------------------------------- the directory
\* db.getRoom: the row's created_by, or Null when there is no row
getRoom(roomId) == IF roomId \in rows THEN created_by[roomId] ELSE Null

\* What an awaited getRoom may deliver to a handler that called it when the
\* row read `seen`: the query runs at some instant between the call and the
\* resumption, a deleted id is never created again, so the row is as at the
\* call or as at the resumption.
Lookups(h) == {h.seen, getRoom(h.roomId)}

\* ------------------------------------------------------ Socket.IO adapter
\* members of an adapter room: a room id maps to its set, a socket id to
\* the private room every connected socket is in
RoomMembers(R, to) ==
    IF to \in RoomIds THEN R[to]
    ELSE IF to \in Conns /\ sockets[to].st = "live" THEN <<to>>
    ELSE <<>>

\* a join that never reaches the adapter
JoinLost(R, roomId, sid) == R

\* socket.join(room) / socket.leave(room) on the adapter
Join(R, roomId, sid) == [R EXCEPT ![roomId] = SetAdd(@, sid)]
\* socket.join(room) called by a handler that resumes after its socket has
\* closed: whether the id still reaches the adapter depends on the
\* Socket.IO release the build resolves, so both outcomes are possible
JoinOutcomes(R, roomId, sid) ==
    IF sockets[sid].st = "live" THEN {Join(R, roomId, sid)}
    ELSE {Join(R, roomId, sid), R}

Leave(R, roomId, sid) == [R EXCEPT ![roomId] = SetDelete(@, sid)]

Ev(to, ev, data) == [to |-> to, ev |-> ev, data |-> data]

\* a broadcast that does not skip the sender
BroadcastToAll(R, to, except, ev, data) ==
    LET tgt == SelectSeq(RoomMembers(R, to),
                         LAMBDA s : sockets[s].st = "live")
    IN  [i \in 1..Len(tgt) |-> Ev(tgt[i], ev, data)]

\* io.to(room).emit / socket.to(room).emit: one packet to every connected
\* socket of the adapter room, skipping `except`
Broadcast(R, to, except, ev, data) ==
    LET tgt == SelectSeq(RoomMembers(R, to),
                         LAMBDA s : s # except /\ sockets[s].st = "live")
    IN  [i \in 1..Len(tgt) |-> Ev(tgt[i], ev, data)]

\* a socket.emit that never sends
EmitDropped(sid, ev, data) == <<>>

\* socket.emit: dropped when the socket is no longer connected
Emit(sid, ev, data) ==
    IF sockets[sid].st = "live" THEN <<Ev(sid, ev, data)>> ELSE <<>>

Person(userId, socketId, displayName) ==
    [userId |-> userId, socketId |-> socketId, displayName |-> displayName]

\* the record of a handler step: the event, the connection it ran for, its
\* argument, the room it worked on and the branch it ended in
Op(ev, conn, arg, roomId, out) ==
    [ev |-> ev, conn |-> conn, arg |-> arg, roomId |-> roomId, out |-> out]

Handler(ev, conn, arg, roomId) ==
    [ev |-> ev, conn |-> conn, arg |-> arg, roomId |-> roomId,
     seen |-> getRoom(roomId)]

CanSuspend(h) == Cardinality(inflight) < MaxInFlight /\ h \notin inflight

\* ------------------------------------------------------------------ Init
\* every room of the model has a row when the server starts; Owners is the
\* set of candidate created_by columns
InitWith(Owners) ==
    /\ rows = RoomIds
    /\ created_by \in Owners
    /\ sockets = [c \in Conns |->
                    [st |-> "new", userId |-> Null, displayName |-> Null,
                     roomId |-> Null]]
    /\ rooms = [r \in RoomIds |-> <<>>]
    /\ lobby = <<>>
    /\ inflight = {}
    /\ deleting = {}
    /\ op = Op("init", Null, Null, Null, Null)
    /\ emitted = <<>>

\* ------------------------------------------------------ io.use middleware
\* the credentials of the model: the token Clerk issued to a user, and a
\* string that does not verify
Jwt(u) == IF u = "u1" THEN "jwt-u1" ELSE "jwt-u2"

\* String.prototype.replace(/^Bearer\s+/i, '') on the header values of the
\* model
StripBearer(a) ==
    CASE a = "Bearer jwt-u1" -> "jwt-u1"
      [] a = "bearer  jwt-u2" -> "jwt-u2"
      [] a = "Bearer forged" -> "forged"
      [] a = "Bearer " -> ""
      [] OTHER -> a

\* handshake.auth: an object with an optional token and an optional
\* Authorization entry; a handshake without the object reads, through
\* `auth?.`, like one with neither entry
Auths ==
    [token : {Null, "", "jwt-u1", "forged"},
     Authorization : {Null, "Bearer jwt-u1", "bearer  jwt-u2", "jwt-u2",
                      "Bearer forged", "Bearer "}]

\* auth?.token ?? auth?.Authorization?.replace?.(...) ?? null
getToken(auth) ==
    IF auth.token # Null THEN auth.token
    ELSE IF auth.Authorization # Null THEN StripBearer(auth.Authorization)
    ELSE Null

\* a verification that accepts every token
verifyTokenAny(token) == "u1"

\* verifyToken: the `sub` of a token Clerk issued, Null when it throws
verifyToken(token) ==
    IF \E u \in Users : token = Jwt(u)
    THEN CHOOSE u \in Users : token = Jwt(u)
    ELSE Null

\* --------------------------------------------------------------- connect
\* io.use middleware with a token that verifies as user u, then 'connection'
Connect(c, u) ==
    /\ sockets[c].st = "new"
    /\ sockets' = [sockets EXCEPT ![c].st = "live", ![c].userId = u]
    /\ op' = Op("connection", c, Null, Null, "connected")
    /\ emitted' = <<>>
    /\ UNCHANGED <<rows, created_by, rooms, lobby, inflight, deleting>>

\* the middleware on a handshake that presents `auth`: next(err) refuses
\* the connection and 'connection' is never fired for the socket; next()
\* lets it connect with the verified `sub` as its userId
Use(c, auth) ==
    LET token == getToken(auth)
    IN  /\ sockets[c].st = "new"
        /\ emitted' = <<>>
        /\ IF Falsy(token) THEN
               /\ sockets' = [sockets EXCEPT ![c].st = "refused"]
               /\ op' = Op("handshake", c, token, Null,
                           "Authentication required")
           ELSE IF verifyToken(token) = Null THEN
               /\ sockets' = [sockets EXCEPT ![c].st = "refused"]
               /\ op' = Op("handshake", c, token, Null, "Invalid token")
           ELSE
               /\ sockets' = [sockets EXCEPT ![c].st = "live",
                                             ![c].userId = verifyToken(token)]
               /\ op' = Op("handshake", c, token, Null, "connected")
        /\ UNCHANGED <<rows, created_by, rooms, lobby, inflight, deleting>>

\* ------------------------------------------------------------- join-room
JoinRoomCall(c, roomId, displayName) ==
    /\ Live(c)
    /\ emitted' = <<>>
    /\ IF Falsy(roomId) THEN
           /\ op' = Op("join-room", c, Null, roomId, "ignored")
           /\ UNCHANGED <<sockets, inflight>>
       ELSE
           /\ CanSuspend(Handler("join-room", c, Null, roomId))
           /\ sockets' = [sockets EXCEPT ![c].displayName = displayName]
           /\ inflight' = inflight \cup
                            {Handler("join-room", c, Null, roomId)}
           /\ op' = Op("join-room", c, Null, roomId, "await")
    /\ UNCHANGED <<rows, created_by, rooms, lobby, deleting>>

\* the owner scan of the non-owner branch: the first socket of the room, in
\* the room's iteration order, that is connected and has the owner's userId
\* a scan that takes the first member, whatever its identity
OwnerScanFirst(roomSet, owner, i) ==
    IF Len(roomSet) >= 1 THEN roomSet[1] ELSE Null

\* a scan that finds nobody
OwnerScanNone(roomSet, owner, i) == Null

RECURSIVE OwnerScan(_, _, _)
OwnerScan(roomSet, owner, i) ==
    IF i > Len(roomSet) THEN Null
    ELSE IF SocketsGet(roomSet[i]) # Null /\ sockets[roomSet[i]].userId = owner
         THEN roomSet[i]
         ELSE OwnerScan(roomSet, owner, i + 1)

\* an owner test that never succeeds
isOwnerNever(c, room) == FALSE

\* `const isOwner = socket.userId === room.created_by`
isOwner(c, room) == sockets[c].userId = room

JoinRoomResume(h, room) ==
    /\ h \in inflight /\ h.ev = "join-room"
    /\ room \in Lookups(h)
    /\ inflight' = inflight \ {h}
    /\ LET c == h.conn
           roomId == h.roomId
           me == Person(sockets[c].userId, c, sockets[c].displayName)
       IN  IF room = Null THEN
               /\ emitted' = Emit(c, "join-error", "Room not found")
               /\ op' = Op("join-room", c, Null, roomId, "not-found")
               /\ UNCHANGED <<sockets, rooms, lobby>>
           ELSE IF isOwner(c, room) THEN
               /\ rooms' \in JoinOutcomes(rooms, roomId, c)
               /\ sockets' = [sockets EXCEPT ![c].roomId = roomId]
               /\ emitted' =
                     Broadcast(rooms', roomId, c, "user-joined", me)
                     \o Emit(c, "room-joined",
                             [roomId |-> roomId, isOwner |-> TRUE])
                     \o (IF Len(getPendingForRoom(lobby, roomId)) > 0
                         THEN Emit(c, "pending-requests",
                                   getPendingForRoom(lobby, roomId))
                         ELSE <<>>)
               /\ op' = Op("join-room", c, Null, roomId, "owner")
               /\ UNCHANGED lobby
           ELSE
               /\ lobby' = addToLobby(lobby, roomId, c, sockets[c].userId,
                                      sockets[c].displayName)
               /\ LET s == OwnerScan(rooms[roomId], room, 1)
                  IN  emitted' =
                        (IF s # Null
                         THEN Emit(s, "pending-join-request",
                                   [socketId |-> c,
                                    userId |-> sockets[c].userId,
                                    displayName |-> sockets[c].displayName])
                         ELSE <<>>)
                        \o Emit(c, "waiting-for-host", Null)
               /\ op' = Op("join-room", c, Null, roomId, "pending")
               /\ UNCHANGED <<sockets, rooms>>
    /\ UNCHANGED <<rows, created_by, deleting>>

\* `await getRoom(roomId)` rejects: the catch of join-room
JoinRoomThrow(h) ==
    /\ h \in inflight /\ h.ev = "join-room"
    /\ inflight' = inflight \ {h}
    /\ emitted' = Emit(h.conn, "join-error", "Failed to join room")
    /\ op' = Op("join-room", h.conn, Null, h.roomId, "failed")
    /\ UNCHANGED <<rows, created_by, sockets, rooms, lobby, deleting>>

\* ------------------------------------------------------------ disconnect
\* Socket.IO takes the socket out of every adapter room and out of
\* io.sockets.sockets before it fires 'disconnect'
LeaveAll(R, sid) == [r \in RoomIds |-> SetDelete(R[r], sid)]

Disconnect(c) ==
    /\ Live(c)
    /\ sockets' = [sockets EXCEPT ![c].st = "gone"]
    /\ rooms' = LeaveAll(rooms, c)
    /\ lobby' = removeFromLobby(lobby, sockets[c].roomId, c)
    /\ emitted' =
          IF sockets[c].roomId # Null
          THEN Broadcast(rooms', sockets[c].roomId, c, "user-left",
                         Person(sockets[c].userId, c, sockets[c].displayName))
          ELSE <<>>
    /\ op' = Op("disconnect", c, Null, sockets[c].roomId, "gone")
    /\ UNCHANGED <<rows, created_by, inflight, deleting>>

\* ----------------------------------------------------------- accept-join
\* the part of an owner-gated handler before `await getRoom(roomId)`
OwnerActionCall(ev, c, target) ==
    /\ Live(c)
    /\ emitted' = <<>>
    /\ IF sockets[c].roomId = Null THEN
           /\ op' = Op(ev, c, target, Null, "no-room")
           /\ UNCHANGED inflight
       ELSE
           /\ CanSuspend(Handler(ev, c, target, sockets[c].roomId))
           /\ inflight' = inflight \cup
                            {Handler(ev, c, target, sockets[c].roomId)}
           /\ op' = Op(ev, c, target, sockets[c].roomId, "await")
    /\ UNCHANGED <<rows, created_by, sockets, rooms, lobby, deleting>>

\* the guard without the test for a missing row
NotOwnerRowAssumed(h, room) == room # Null /\ room # sockets[h.conn].userId

\* the guard without the comparison of created_by
NotOwnerRoomOnly(h, room) == room = Null

\* `!room || room.created_by !== socket.userId`
NotOwner(h, room) == room = Null \/ room # sockets[h.conn].userId

AcceptJoinCall(c, requestingSocketId) ==
    OwnerActionCall("accept-join", c, requestingSocketId)

AcceptJoinResume(h, room) ==
    /\ h \in inflight /\ h.ev = "accept-join"
    /\ room \in Lookups(h)
    /\ inflight' = inflight \ {h}
    /\ LET c == h.conn
           roomId == h.roomId
           t == h.arg
           list == getPendingForRoom(lobby, roomId)
           idx == IndexOf(list, t, 1)
       IN  IF NotOwner(h, room) THEN
               /\ op' = Op(h.ev, c, t, roomId, "denied")
               /\ emitted' = <<>>
               /\ UNCHANGED <<sockets, rooms, lobby>>
           ELSE IF idx = 0 THEN
               /\ op' = Op(h.ev, c, t, roomId, "no-pending")
               /\ emitted' = <<>>
               /\ UNCHANGED <<sockets, rooms, lobby>>
           ELSE IF SocketsGet(t) = Null THEN
               /\ lobby' = removeFromLobby(lobby, roomId, t)
               /\ op' = Op(h.ev, c, t, roomId, "stale")
               /\ emitted' = <<>>
               /\ UNCHANGED <<sockets, rooms>>
           ELSE
               /\ lobby' = removeFromLobby(lobby, roomId, t)
               /\ sockets' = [sockets EXCEPT
                                ![t].displayName = list[idx].displayName,
                                ![t].roomId = roomId]
               /\ rooms' = Join(rooms, roomId, t)
               /\ emitted' =
                     Broadcast(rooms', roomId, c, "user-joined",
                               Person(list[idx].userId, t,
                                      list[idx].displayName))
                     \o <<Ev(t, "room-joined",
                             [roomId |-> roomId, isOwner |-> FALSE])>>
               /\ op' = Op(h.ev, c, t, roomId, "admitted")
    /\ UNCHANGED <<rows, created_by, deleting>>

\* ----------------------------------------------------------- reject-join
RejectJoinCall(c, requestingSocketId) ==
    OwnerActionCall("reject-join", c, requestingSocketId)

RejectJoinResume(h, room) ==
    /\ h \in inflight /\ h.ev = "reject-join"
    /\ room \in Lookups(h)
    /\ inflight' = inflight \ {h}
    /\ IF NotOwner(h, room) THEN
           /\ op' = Op(h.ev, h.conn, h.arg, h.roomId, "denied")
           /\ emitted' = <<>>
           /\ UNCHANGED lobby
       ELSE
           /\ lobby' = removeFromLobby(lobby, h.roomId, h.arg)
           /\ emitted' = Broadcast(rooms, h.arg, Null, "join-rejected", Null)
           /\ op' = Op(h.ev, h.conn, h.arg, h.roomId, "rejected")
    /\ UNCHANGED <<rows, created_by, sockets, rooms, deleting>>

\* ------------------------------------------------------------- kick-user
KickUserCall(c, targetSocketId) ==
    OwnerActionCall("kick-user", c, targetSocketId)

\* a target test that does not compare the target's room
KickTargetAnyRoom(targetSocketId, roomId) == SocketsGet(targetSocketId) # Null

\* `targetSocket && targetSocket.roomId === roomId`
KickTarget(targetSocketId, roomId) ==
    SocketsGet(targetSocketId) # Null /\ sockets[targetSocketId].roomId = roomId

KickUserResume(h, room) ==
    /\ h \in inflight /\ h.ev = "kick-user"
    /\ room \in Lookups(h)
    /\ inflight' = inflight \ {h}
    /\ LET c == h.conn
           roomId == h.roomId
           t == h.arg
       IN  IF NotOwner(h, room) THEN
               /\ op' = Op(h.ev, c, t, roomId, "denied")
               /\ emitted' = <<>>
               /\ UNCHANGED <<sockets, rooms>>
           ELSE IF KickTarget(t, roomId) THEN
               /\ rooms' = Leave(rooms, roomId, t)
               /\ sockets' = [sockets EXCEPT ![t].roomId = Null]
               /\ emitted' =
                     <<Ev(t, "you-were-kicked", Null)>>
                     \o Broadcast(rooms', roomId, c, "user-left",
                                  Person(sockets[t].userId, t,
                                         sockets[t].displayName))
               /\ op' = Op(h.ev, c, t, roomId, "kicked")
           ELSE
               /\ op' = Op(h.ev, c, t, roomId, "no-target")
               /\ emitted' = <<>>
               /\ UNCHANGED <<sockets, rooms>>
    /\ UNCHANGED <<rows, created_by, lobby, deleting>>

\* ---------------------------------- owner-gated handlers: getRoom rejects
\* the Node process is running: no socket has been cut by its exit
ProcessUp == \A c \in Conns : sockets[c].st # "down"

\* `await getRoom(roomId)` rejects in accept-join, reject-join or
\* kick-user.  The handlers have no try/catch and nothing handles the
\* rejected promise of the listener, so it is an unhandled rejection: the
\* Node release and flags decide whether the process only warns and goes
\* on, or exits, which cuts every connection and loses lobby, membership
\* and every suspended handler.  Both outcomes are possible.
OwnerActionThrow(h) ==
    /\ h \in inflight /\ h.ev \in {"accept-join", "reject-join", "kick-user"}
    /\ emitted' = <<>>
    /\ \/ /\ inflight' = inflight \ {h}
          /\ op' = Op(h.ev, h.conn, h.arg, h.roomId, "failed")
          /\ UNCHANGED <<sockets, rooms, lobby, deleting>>
       \/ /\ inflight' = {}
          /\ deleting' = {}
          /\ sockets' = [c \in Conns |->
                           [st |-> "down", userId |-> Null,
                            displayName |-> Null, roomId |-> Null]]
          /\ rooms' = [r \in RoomIds |-> <<>>]
          /\ lobby' = <<>>
          /\ op' = Op(h.ev, h.conn, h.arg, h.roomId, "exit")
    /\ UNCHANGED <<rows, created_by>>

\* ------------------------------------------------------ get-participants
\* the list the handler passes to the callback, as a sequence in the
\* room's iteration order
Participants(roomId) ==
    LET room == IF roomId = Null THEN <<>> ELSE RoomMembers(rooms, roomId)
        in == SelectSeq(room, LAMBDA sid :
                 SocketsGet(sid) # Null /\ sockets[sid].userId # Null)
    IN  [i \in 1..Len(in) |->
            Person(sockets[in[i]].userId, in[i], sockets[in[i]].displayName)]

GetParticipants(c, roomId) ==
    /\ Live(c)
    /\ emitted' = <<Ev(c, "participants", Participants(roomId))>>
    /\ op' = Op("get-participants", c, Null, roomId, "reply")
    /\ UNCHANGED <<rows, created_by, sockets, rooms, lobby, inflight, deleting>>

\* -------------------------------------------------- get-pending-requests
GetPendingRequests(c) ==
    /\ Live(c)
    /\ emitted' = <<Ev(c, "pending-list",
                       IF sockets[c].roomId = Null THEN <<>>
                       ELSE getPendingForRoom(lobby, sockets[c].roomId))>>
    /\ op' = Op("get-pending-requests", c, Null, sockets[c].roomId, "reply")
    /\ UNCHANGED <<rows, created_by, sockets, rooms, lobby, inflight, deleting>>

\* ----------------------------------------------- offer/answer/ice-candidate
Relay(kind, c, to, payload) ==
    /\ Live(c)
    /\ emitted' = IF to # Null
                  THEN Broadcast(rooms, to, Null, kind,
                                 [from |-> c, payload |-> payload])
                  ELSE <<>>
    /\ op' = Op(kind, c, to, Null, payload)
    /\ UNCHANGED <<rows, created_by, sockets, rooms, lobby, inflight, deleting>>

Offer(c, to, sdp) == Relay("offer", c, to, sdp)
Answer(c, to, sdp) == Relay("answer", c, to, sdp)
IceCandidate(c, to, candidate) == Relay("ice-candidate", c, to, candidate)

\* --------------------------------------------------- DELETE /api/rooms/:id
\* deleteRoom deletes the row only for its creator; any other request gets
\* 404 and touches nothing
DeleteRoomCall(roomId, userId) ==
    /\ roomId \in rows /\ created_by[roomId] = userId
    /\ rows' = rows \ {roomId}
    /\ deleting' = deleting \cup {roomId}
    /\ op' = Op("delete-room", Null, Null, roomId, "await")
    /\ emitted' = <<>>
    /\ UNCHANGED <<created_by, sockets, rooms, lobby, inflight>>

DeleteRoomNotify(roomId) ==
    /\ roomId \in deleting
    /\ deleting' = deleting \ {roomId}
    /\ emitted' = Broadcast(rooms, roomId, Null, "room-deleted",
                            [roomId |-> roomId])
    /\ rooms' = [rooms EXCEPT ![roomId] =
                    SelectSeq(@, LAMBDA sid : SocketsGet(sid) = Null)]
    /\ sockets' = [c \in Conns |->
                     IF c \in Range(rooms[roomId]) /\ SocketsGet(c) # Null
                     THEN [sockets[c] EXCEPT !.roomId = Null]
                     ELSE sockets[c]]
    /\ op' = Op("delete-room", Null, Null, roomId, "notified")
    /\ UNCHANGED <<rows, created_by, lobby, inflight>>

\* --------------------------------------------- POST /api/recordings/upload
\* the recording rows createRecording may return
Recordings == {"rec1", "rec2"}

\* the handler up to `await createRecording(...)`: a request for a room
\* without a row gets 404 and nothing else happens
RecordingUploadCall(roomId) ==
    /\ emitted' = <<>>
    /\ IF getRoom(roomId) = Null THEN
           /\ op' = Op("recording-upload", Null, Null, roomId, "not-found")
           /\ UNCHANGED inflight
       ELSE
           /\ CanSuspend(Handler("recording-upload", Null, Null, roomId))
           /\ inflight' = inflight \cup
                            {Handler("recording-upload", Null, Null, roomId)}
           /\ op' = Op("recording-upload", Null, Null, roomId, "await")
    /\ UNCHANGED <<rows, created_by, sockets, rooms, lobby, deleting>>

\* io.emit: a notification sent to every connected socket
notifyRecordingReadyAll(R, roomId, recording) ==
    LET tgt == SelectSeq(SocketIds, LAMBDA s : sockets[s].st = "live")
    IN  [i \in 1..Len(tgt) |-> Ev(tgt[i], "recording-uploaded", recording)]

\* io.to(roomId).emit('recording-uploaded', recording)
notifyRecordingReady(R, roomId, recording) ==
    Broadcast(R, roomId, Null, "recording-uploaded", recording)

\* createRecording returned the row `recording`: the notification
RecordingUploadNotify(h, recording) ==
    /\ h \in inflight /\ h.ev = "recording-upload"
    /\ inflight' = inflight \ {h}
    /\ emitted' = notifyRecordingReady(rooms, h.roomId, recording)
    /\ op' = Op("recording-upload", Null, recording, h.roomId, "notified")
    /\ UNCHANGED <<rows, created_by, sockets, rooms, lobby, deleting>>

\* createRecording rejects: the catch answers 500 and nothing is sent
RecordingUploadThrow(h) ==
    /\ h \in inflight /\ h.ev = "recording-upload"
    /\ inflight' = inflight \ {h}
    /\ emitted' = <<>>
    /\ op' = Op("recording-upload", Null, Null, h.roomId, "failed")
    /\ UNCHANGED <<rows, created_by, sockets, rooms, lobby, deleting>>

\* ------------------------------------------------------------------ Next
\* every value a directory lookup can deliver
Rows == Users \cup {Null}

\* the handlers that change lobby, membership or the directory, for the
\* connections CS and the rooms RS
Core(CS, RS) ==
    \/ \E c \in CS, u \in Users : Connect(c, u)
    \/ \E c \in CS, r \in RS, n \in DisplayNames : JoinRoomCall(c, r, n)
    \/ \E h \in inflight, room \in Rows : JoinRoomResume(h, room)
    \/ \E c \in CS, t \in CS : AcceptJoinCall(c, t)
    \/ \E h \in inflight, room \in Rows : AcceptJoinResume(h, room)
    \/ \E c \in CS, t \in CS : RejectJoinCall(c, t)
    \/ \E h \in inflight, room \in Rows : RejectJoinResume(h, room)
    \/ \E c \in CS, t \in CS : KickUserCall(c, t)
    \/ \E h \in inflight, room \in Rows : KickUserResume(h, room)
    \/ \E c \in CS : Disconnect(c)
    \/ \E r \in RS, u \in Users : DeleteRoomCall(r, u)
    \/ \E r \in RS : DeleteRoomNotify(r)

\* ------------------------------------------------------- specifications
\* one room owned by u1 and two connections of any identity, at most two
\* handlers suspended at a time
Init == InitWith({[r \in RoomIds |-> "u1"]})

Next == Core({"s1", "s2"}, {"r1"}) /\ Cardinality(inflight') =< 2

Spec == Init /\ [][Next]_vars

\* two rooms owned by u1, two connections of any identity, one handler
\* suspended at a time
NextRooms == Core({"s1", "s2"}, RoomIds) /\ Cardinality(inflight') =< 1

SpecRooms == Init /\ [][NextRooms]_vars

\* one room, two connections, one handler suspended at a time, and the
\* handshake relay with any target string: a socket id, a room id, nothing
Payloads == {"p1", "p2"}

NextRelay ==
    \/ Core({"s1", "s2"}, {"r1"}) /\ Cardinality(inflight') =< 1
    \/ \E c \in {"s1", "s2"}, to \in {"s1", "s2", "r1", Null}, p \in Payloads :
          \/ Offer(c, to, p)
          \/ Answer(c, to, p)
          \/ IceCandidate(c, to, p)

SpecRelay == Init /\ [][NextRelay]_vars

\* every handler of the coordinator: the relay specification and the two
\* queries
NextAll ==
    \/ NextRelay
    \/ \E c \in {"s1", "s2"}, r \in {"r1", Null} : GetParticipants(c, r)
    \/ \E c \in {"s1", "s2"} : GetPendingRequests(c)

SpecAll == Init /\ [][NextAll]_vars

\* one room and two connections, with join-room called without a room id
\* and with a directory whose lookup may fail, at most two handlers
\* suspended at a time
NextJoin ==
    \/ Core({"s1", "s2"}, {"r1"}) /\ Cardinality(inflight') =< 2
    \/ \E c \in {"s1", "s2"}, r \in {"", Null}, n \in DisplayNames :
          JoinRoomCall(c, r, n)
    \/ \E h \in inflight : JoinRoomThrow(h)

SpecJoin == Init /\ [][NextJoin]_vars

\* one room and two connections that present any handshake credentials,
\* at most two handlers suspended at a time
NextAuth ==
    \/ Core({"s1", "s2"}, {"r1"}) /\ Cardinality(inflight') =< 2
    \/ \E c \in {"s1", "s2"}, auth \in Auths : Use(c, auth)

SpecAuth == Init /\ [][NextAuth]_vars

\* three connections of any identity and one room that is never deleted:
\* joins and admissions racing on the directory lookup, and disconnects
NextRace ==
    \/ \E c \in Conns, u \in Users : Connect(c, u)
    \/ \E c \in Conns, n \in DisplayNames : JoinRoomCall(c, "r1", n)
    \/ \E h \in inflight, room \in Rows : JoinRoomResume(h, room)
    \/ \E c \in Conns, t \in Conns : AcceptJoinCall(c, t)
    \/ \E h \in inflight, room \in Rows : AcceptJoinResume(h, room)
    \/ \E c \in Conns : Disconnect(c)

SpecRace == Init /\ [][NextRace]_vars

\* the Lobby Store on its own: any sequence of adds and removes for two
\* rooms and two connections, with any identity and display name
LobbyNames == {"Ann", "Bob"}

LobbyAdd(roomId, socketId, userId, displayName) ==
    /\ lobby' = addToLobby(lobby, roomId, socketId, userId, displayName)
    /\ op' = Op("addToLobby", socketId,
                [userId |-> userId, displayName |-> displayName], roomId,
                "done")
    /\ UNCHANGED <<rows, created_by, sockets, rooms, inflight, deleting,
                   emitted>>

LobbyRemove(roomId, socketId) ==
    /\ lobby' = removeFromLobby(lobby, roomId, socketId)
    /\ op' = Op("removeFromLobby", socketId, Null, roomId,
                IF IndexOf(getPendingForRoom(lobby, roomId), socketId, 1) >= 1
                THEN "removed" ELSE "absent")
    /\ UNCHANGED <<rows, created_by, sockets, rooms, inflight, deleting,
                   emitted>>

NextLobby ==
    \/ \E r \in RoomIds, c \in {"s1", "s2"}, u \in Users, n \in LobbyNames :
          LobbyAdd(r, c, u, n)
    \/ \E r \in RoomIds, c \in {"s1", "s2"} : LobbyRemove(r, c)

SpecLobby == Init /\ [][NextLobby]_vars

\* the Lobby Store of one room with three connections, so that a list of
\* three loses an entry
NextLobbyOrder ==
    \/ \E c \in Conns, u \in Users, n \in LobbyNames : LobbyAdd("r1", c, u, n)
    \/ \E c \in Conns : LobbyRemove("r1", c)

SpecLobbyOrder == Init /\ [][NextLobbyOrder]_vars

\* one room, two connections, one handler suspended at a time, and the two
\* queries; get-participants with any string a client may pass: the room
\* id, a socket id, the empty string, nothing
NextQuery ==
    \/ Core({"s1", "s2"}, {"r1"}) /\ Cardinality(inflight') =< 1
    \/ \E c \in {"s1", "s2"}, r \in {"r1", "s1", "s2", "", Null} :
          GetParticipants(c, r)
    \/ \E c \in {"s1", "s2"} : GetPendingRequests(c)

SpecQuery == Init /\ [][NextQuery]_vars

\* two rooms owned by u1, two connections, one handler suspended at a
\* time, and get-pending-requests
NextRoomsQuery ==
    \/ NextRooms
    \/ \E c \in {"s1", "s2"} : GetPendingRequests(c)

SpecRoomsQuery == Init /\ [][NextRoomsQuery]_vars

\* two rooms owned by u1, two connections, and the upload of recordings
\* for either room, one handler or upload suspended at a time
NextRecording ==
    /\ \/ Core({"s1", "s2"}, RoomIds)
       \/ \E r \in RoomIds : RecordingUploadCall(r)
       \/ \E h \in inflight, rec \in Recordings : RecordingUploadNotify(h, rec)
       \/ \E h \in inflight : RecordingUploadThrow(h)
    /\ Cardinality(inflight') =< 1

SpecRecording == Init /\ [][NextRecording]_vars

\* every operation on one room: the handlers, the relay, the two queries
\* and the upload of recordings, one handler or upload suspended at a time
NextEvery ==
    \/ NextAll
    \/ /\ \/ RecordingUploadCall("r1")
          \/ \E h \in inflight, rec \in Recordings :
                RecordingUploadNotify(h, rec)
          \/ \E h \in inflight : RecordingUploadThrow(h)
       /\ Cardinality(inflight') =< 1

SpecEvery == Init /\ [][NextEvery]_vars

\* one room, two connections, one handler suspended at a time, and a
\* directory whose lookup may fail in the owner-gated handlers; nothing
\* runs once the process has exited
NextThrow ==
    \/ /\ ProcessUp
       /\ Core({"s1", "s2"}, {"r1"})
       /\ Cardinality(inflight') =< 1
    \/ \E h \in inflight : OwnerActionThrow(h)

SpecThrow == Init /\ [][NextThrow]_vars

\* two rooms with different owners, r1 of u1 and r2 of u2, two connections
\* of any identity, one handler suspended at a time
InitOwners == InitWith({[r \in RoomIds |-> IF r = "r1" THEN "u1" ELSE "u2"]})

SpecOwners == InitOwners /\ [][NextRooms]_vars

\* ================================================================ claims
\* how many times the events E carry `ev` to connection `to`
Count(E, to, ev) ==
    Cardinality({i \in 1..Len(E) : E[i].to = to /\ E[i].ev = ev})

\* how many times the events E carry `ev` with body `data` to `to`
CountData(E, to, ev, data) ==
    Cardinality({i \in 1..Len(E) :
                    E[i].to = to /\ E[i].ev = ev /\ E[i].data = data})

\* how many entries of room r's pending list belong to connection c
Entries(L, r, c) ==
    Cardinality({i \in 1..Len(getPendingForRoom(L, r)) :
                    getPendingForRoom(L, r)[i].socketId = c})

OwnerEvents == {"accept-join", "reject-join", "kick-user"}
RelayEvents == {"offer", "answer", "ice-candidate"}

\* the step is the continuation of the suspended handler h
Resumes(h) ==
    /\ h \in inflight
    /\ inflight' = inflight \ {h}
    /\ op'.ev = h.ev /\ op'.conn = h.conn /\ op'.arg = h.arg
    /\ op'.roomId = h.roomId

\* join-room ran to its end with the directory reporting the room
JoinedBy(o) == o.ev = "join-room" /\ o.out \in {"owner", "pending"}

\* C1: a live connection whose identity is the room's owner and whose
\* join-room(R) completed is a member of R, was sent exactly one
\* room-joined{R, isOwner: true}, and is not in R's lobby; and no
\* connection with the identity of a room's owner is ever in that room's
\* lobby.
C1_OwnerAutoAdmit ==
    /\ (JoinedBy(op) /\ Live(op.conn)
          /\ sockets[op.conn].userId = created_by[op.roomId])
       => /\ op.conn \in Range(rooms[op.roomId])
          /\ CountData(emitted, op.conn, "room-joined",
                       [roomId |-> op.roomId, isOwner |-> TRUE]) = 1
          /\ Count(emitted, op.conn, "room-joined") = 1
          /\ Entries(lobby, op.roomId, op.conn) = 0
    /\ \A c \in Conns, r \in RoomIds :
          sockets[c].userId = created_by[r] => Entries(lobby, r, c) = 0

C1_Witness ==
    /\ JoinedBy(op) /\ Live(op.conn)
    /\ sockets[op.conn].userId = created_by[op.roomId]
    /\ DOMAIN lobby # {}

\* C2: when join-room(R) of a live connection whose identity is not R's
\* owner completes, the connection was sent waiting-for-host, has exactly
\* one entry in R's pending list, and no room's membership has changed.
C2_NonOwnerGated ==
    [][(JoinedBy(op') /\ sockets'[op'.conn].st = "live"
          /\ sockets'[op'.conn].userId # created_by[op'.roomId])
       => /\ Count(emitted', op'.conn, "waiting-for-host") = 1
          /\ Count(emitted', op'.conn, "room-joined") = 0
          /\ Entries(lobby', op'.roomId, op'.conn) = 1
          /\ rooms' = rooms]_vars

\* the requester was already pending when join-room completed again
C2_Witness ==
    /\ JoinedBy(op) /\ Live(op.conn)
    /\ sockets[op.conn].userId # created_by[op.roomId]
    /\ Len(getPendingForRoom(lobby, op.roomId)) = 2

\* C3: when accept-join(T) resumes with the directory confirming the caller
\* as owner, and T is connected and pending in the caller's room R, then
\* afterwards T is a member of R, T's roomId is R, T has no entry in R's
\* lobby, and T was sent exactly one room-joined{R, isOwner: false}.
C3_AdmitMovesTarget ==
    [][\A h \in inflight :
         (/\ Resumes(h) /\ h.ev = "accept-join"
          /\ op'.out # "denied"
          /\ Live(h.arg)
          /\ Entries(lobby, h.roomId, h.arg) > 0)
         => /\ h.arg \in Range(rooms'[h.roomId])
            /\ sockets'[h.arg].roomId = h.roomId
            /\ Entries(lobby', h.roomId, h.arg) = 0
            /\ CountData(emitted', h.arg, "room-joined",
                         [roomId |-> h.roomId, isOwner |-> FALSE]) = 1
            /\ Count(emitted', h.arg, "room-joined") = 1]_vars

C3_Witness ==
    /\ op.ev = "accept-join" /\ op.out = "admitted"
    /\ op.arg \in Range(rooms[op.roomId])
    /\ sockets[op.arg].roomId = op.roomId

\* C4: when accept-join(T) admits T into R, the caller and every connection
\* that was a member of R before are sent user-joined describing T, and T
\* is not sent user-joined.
C4_AdmitNotifiesRoom ==
    [][\A h \in inflight :
         (/\ Resumes(h) /\ h.ev = "accept-join"
          /\ op'.out # "denied"
          /\ Live(h.arg)
          /\ Entries(lobby, h.roomId, h.arg) > 0)
         => /\ \A m \in (Range(rooms[h.roomId]) \cup {h.conn}) \ {h.arg} :
                 Live(m) =>
                   \E i \in 1..Len(emitted') :
                      /\ emitted'[i].to = m
                      /\ emitted'[i].ev = "user-joined"
                      /\ emitted'[i].data.socketId = h.arg
                      /\ emitted'[i].data.userId = sockets[h.arg].userId
            /\ Count(emitted', h.arg, "user-joined") = 0]_vars

\* C5: when kick-user(T) resumes with the directory confirming the caller
\* as owner of its room R, and T is connected and a member of R, then
\* afterwards T is not a member of R, T's roomId is null, T was sent
\* you-were-kicked, and get-participants(R) does not list T.
C5_KickRemovesMembership ==
    [][\A h \in inflight :
         (/\ Resumes(h) /\ h.ev = "kick-user"
          /\ op'.out # "denied"
          /\ Live(h.arg)
          /\ h.arg \in Range(rooms[h.roomId]))
         => /\ h.arg \notin Range(rooms'[h.roomId])
            /\ sockets'[h.arg].roomId = Null
            /\ Count(emitted', h.arg, "you-were-kicked") = 1
            /\ \A i \in 1..Len(Participants(h.roomId)') :
                  Participants(h.roomId)'[i].socketId # h.arg]_vars

\* C6: when kick-user(T) removes T from R, every connection that is still
\* a member of R, the caller included, is sent user-left describing T, and
\* T is not sent user-left.
C6_KickNotifiesRemaining ==
    [][\A h \in inflight :
         (/\ Resumes(h) /\ h.ev = "kick-user"
          /\ op'.out = "kicked")
         => /\ \A m \in Range(rooms'[h.roomId]) :
                 sockets'[m].st = "live" =>
                   \E i \in 1..Len(emitted') :
                      /\ emitted'[i].to = m
                      /\ emitted'[i].ev = "user-left"
                      /\ emitted'[i].data.socketId = h.arg
            /\ Count(emitted', h.arg, "user-left") = 0]_vars

\* C7: accept-join, reject-join or kick-user called by a connection that
\* has no current room, or whose identity is not the owner of its current
\* room, changes neither lobby, membership nor any socket, and sends
\* nothing.
C7_UnauthorizedNoOp ==
    [][/\ \A h \in inflight :
            (/\ Resumes(h) /\ h.ev \in OwnerEvents
             /\ sockets[h.conn].userId # created_by[h.roomId])
            => /\ lobby' = lobby /\ rooms' = rooms /\ sockets' = sockets
               /\ emitted' = <<>>
       /\ (/\ op'.ev \in OwnerEvents
           /\ inflight' = inflight
           /\ sockets[op'.conn].roomId = Null)
          => /\ lobby' = lobby /\ rooms' = rooms /\ sockets' = sockets
             /\ emitted' = <<>>]_vars

\* a non-owner member's kick of a connected member was turned down
C7_Witness ==
    /\ op.ev = "kick-user" /\ op.out = "denied"
    /\ sockets[op.conn].userId # created_by[op.roomId]
    /\ Live(op.arg) /\ sockets[op.arg].roomId = op.roomId

\* C8: in the state a disconnect leaves, no lobby list holds an entry of
\* the connection that disconnected.
C8_DisconnectWhilePending ==
    op.ev = "disconnect" =>
        \A r \in RoomIds : Entries(lobby, r, op.conn) = 0

\* C9: offer, answer and ice-candidate with target `to` are delivered as
\* {from, payload} to the connection `to` alone when it is connected, and
\* to nobody otherwise.
C9_RelayOnlyToLiveTarget ==
    op.ev \in RelayEvents =>
        emitted = IF Live(op.arg)
                  THEN <<Ev(op.arg, op.ev,
                            [from |-> op.conn, payload |-> op.out])>>
                  ELSE <<>>

\* C10: every connection is in the membership of at most one room.
C10_SingleRoomMembership ==
    \A c \in Conns :
        Cardinality({r \in RoomIds : c \in Range(rooms[r])}) =< 1

\* C11: a connection enters the membership of a room R only in a step of
\* its own join-room(R) while its identity is R's owner, or in a step of an
\* accept-join naming it, called by a connection whose identity is R's
\* owner, while it has an entry in R's lobby; no step of any other handler
\* adds a connection to a membership.
C11_MembershipOnlyByAdmission ==
    [][\A r \in RoomIds, c \in Conns :
         (c \in Range(rooms'[r]) /\ c \notin Range(rooms[r]))
         => \/ /\ op'.ev = "join-room" /\ op'.conn = c /\ op'.roomId = r
               /\ sockets[c].userId = created_by[r]
            \/ /\ op'.ev = "accept-join" /\ op'.arg = c /\ op'.roomId = r
               /\ sockets[op'.conn].userId = created_by[r]
               /\ Entries(lobby, r, c) > 0]_vars

\* an accept-join has just put a second member next to the one that
\* joined as owner
C11_Witness ==
    /\ op.ev = "accept-join" /\ op.out = "admitted"
    /\ Len(rooms[op.roomId]) = 2
    /\ op.arg \in Range(rooms[op.roomId])
    /\ sockets[op.arg].userId # created_by[op.roomId]

\* C12: no pending list ever holds two entries of one connection, and an
\* add for a connection that already has an entry in the room's list
\* leaves the whole store as it was: same length, same order, and the
\* entry keeps the identity and display name of the first add.
C12_LobbyUniqueIdempotentAdd ==
    [][/\ \A r \in RoomIds, c \in Conns : Entries(lobby', r, c) =< 1
       /\ (op'.ev = "addToLobby"
             /\ Entries(lobby, op'.roomId, op'.conn) > 0)
          => lobby' = lobby]_vars

\* a second add with another identity and display name has run for the
\* connection at the head of a list of two
C12_Witness ==
    /\ op.ev = "addToLobby"
    /\ Len(getPendingForRoom(lobby, op.roomId)) = 2
    /\ lobby[op.roomId][1].socketId = op.conn
    /\ lobby[op.roomId][1].userId # op.arg.userId
    /\ lobby[op.roomId][1].displayName # op.arg.displayName

\* C13: no key of the lobby Map ever maps to an empty list, and a remove
\* that takes the last entry out of a room's list leaves the Map without
\* a key for the room, so that the pending list read for it is empty.
C13_NoEmptyLobbyList ==
    [][/\ \A r \in DOMAIN lobby' : Len(lobby'[r]) > 0
       /\ (op'.ev = "removeFromLobby"
             /\ Len(getPendingForRoom(lobby, op'.roomId)) = 1
             /\ Entries(lobby, op'.roomId, op'.conn) = 1)
          => /\ op'.roomId \notin DOMAIN lobby'
             /\ getPendingForRoom(lobby', op'.roomId) = <<>>]_vars

\* the last entry of one room has been removed while the other room still
\* has a list
C13_Witness ==
    /\ op.ev = "removeFromLobby" /\ op.out = "removed"
    /\ op.roomId \notin DOMAIN lobby
    /\ DOMAIN lobby # {}

\* C14: when join-room(R) resumes with the directory reporting no room R,
\* a caller that is still connected is sent join-error once, nobody is
\* sent room-joined or waiting-for-host for it, and lobby, membership and
\* the caller's roomId are as before.
C14_RoomNotFound ==
    [][\A h \in inflight :
         (Resumes(h) /\ h.ev = "join-room" /\ op'.out = "not-found")
         => /\ Live(h.conn) => Count(emitted', h.conn, "join-error") = 1
            /\ Count(emitted', h.conn, "room-joined") = 0
            /\ Count(emitted', h.conn, "waiting-for-host") = 0
            /\ lobby' = lobby /\ rooms' = rooms
            /\ sockets'[h.conn].roomId = sockets[h.conn].roomId]_vars

\* a member of the room asked to join it after its row was deleted, while
\* a request was pending
C14_Witness ==
    /\ op.ev = "join-room" /\ op.out = "not-found"
    /\ Live(op.conn) /\ sockets[op.conn].roomId # Null
    /\ Count(emitted, op.conn, "join-error") = 1
    /\ DOMAIN lobby # {}

\* C15: when the directory lookup of join-room(R) throws, a caller that is
\* still connected is sent join-error once and nothing else is sent; lobby,
\* membership and every socket are as before and the handler is over
\* (nothing is retried); and in the state this leaves, the same connection,
\* when no other handler of it is suspended, can call join-room(R) again.
C15_DirectoryFailureAtJoin ==
    /\ [][\A h \in inflight :
            (Resumes(h) /\ h.ev = "join-room" /\ op'.out = "failed")
            => /\ Live(h.conn) => Count(emitted', h.conn, "join-error") = 1
               /\ Len(emitted') = Count(emitted', h.conn, "join-error")
               /\ lobby' = lobby /\ rooms' = rooms /\ sockets' = sockets
               /\ \A g \in inflight' : g \in inflight /\ g # h]_vars
    /\ []((op.ev = "join-room" /\ op.out = "failed" /\ Live(op.conn)
              /\ \A g \in inflight : g.conn # op.conn)
           => \E n \in DisplayNames :
                 ENABLED JoinRoomCall(op.conn, op.roomId, n))

\* the lookup failed for a connected caller while a request was pending
\* and the room had a member
C15_Witness ==
    /\ op.ev = "join-room" /\ op.out = "failed"
    /\ Live(op.conn)
    /\ Count(emitted, op.conn, "join-error") = 1
    /\ DOMAIN lobby # {}
    /\ Len(rooms[op.roomId]) > 0

\* the join responses among the events E sent to connection c
JoinResponses(E, c) ==
    Count(E, c, "room-joined") + Count(E, c, "waiting-for-host")
        + Count(E, c, "join-error")

\* C16: when a join-room handler of a connected caller has run to its end,
\* for any room id string, the empty one included, the caller was sent
\* exactly one of room-joined, waiting-for-host and join-error.
C16_ExactlyOneJoinResponse ==
    (op.ev = "join-room" /\ op.out # "await" /\ op.roomId # Null
        /\ Live(op.conn))
    => JoinResponses(emitted, op.conn) = 1

\* the tokens that verify
GoodTokens == {Jwt(u) : u \in Users}

\* C17: a handshake whose token is missing, empty or does not verify
\* leaves the socket refused and without identity and changes neither
\* lobby nor membership; a handshake whose token verifies gives the socket
\* the verified identity; no step of any handler ever runs for a refused
\* socket, and every connection a handler runs for has an identity.
C17_AuthenticationGate ==
    [][/\ (op'.ev = "handshake" /\ op'.arg \notin GoodTokens)
          => /\ sockets'[op'.conn].st = "refused"
             /\ sockets'[op'.conn].userId = Null
             /\ lobby' = lobby /\ rooms' = rooms
       /\ (op'.ev = "handshake" /\ op'.arg \in GoodTokens)
          => /\ sockets'[op'.conn].st = "live"
             /\ op'.arg = Jwt(sockets'[op'.conn].userId)
       /\ op'.conn \in Conns
          => /\ sockets[op'.conn].st # "refused"
             /\ op'.ev \notin {"handshake", "connection"}
                => sockets[op'.conn].userId \in Users]_vars

\* one socket was refused for a token that does not verify while the
\* other, connected, has a request pending
C17_Witness ==
    /\ op.ev = "handshake" /\ op.out = "Invalid token"
    /\ sockets[op.conn].st = "refused"
    /\ DOMAIN lobby # {}

C19_DisconnectOfMember ==
    [][op'.ev = "disconnect"
       => /\ \A r \in RoomIds : op'.conn \notin Range(rooms'[r])
          /\ \A r \in RoomIds :
                op'.conn \in Range(rooms[r])
                => \A m \in Range(rooms'[r]) :
                      Live(m) =>
                        \E i \in 1..Len(emitted') :
                           /\ emitted'[i].to = m
                           /\ emitted'[i].ev = "user-left"
                           /\ emitted'[i].data.socketId = op'.conn
          /\ (\A r \in RoomIds : op'.conn \notin Range(rooms[r]))
             => emitted' = <<>>]_vars

\* C20: for every connected socket, roomId is null exactly when the socket
\* is in no membership, and when roomId is R the socket is in R's
\* membership and in no other.
C20_RoomIdAgreesWithMembership ==
    \A c \in Conns :
        Live(c) =>
            /\ sockets[c].roomId = Null
                  <=> \A r \in RoomIds : c \notin Range(rooms[r])
            /\ sockets[c].roomId # Null
                  => \A r \in RoomIds :
                        c \in Range(rooms[r]) <=> r = sockets[c].roomId

\* C21: no connected socket has an entry in some room's pending list
\* while it is in some room's membership.
C21_PendingAndJoinedExclusive ==
    \A c \in Conns :
        Live(c) =>
            ~ /\ \E r \in RoomIds : Entries(lobby, r, c) > 0
              /\ \E r \in RoomIds : c \in Range(rooms[r])

\* C22: join-rejected is sent only in a step of reject-join(T), only to T,
\* only when the caller's identity is the owner of its room R and T has an
\* entry in R's pending list; in that case the entry is removed and a
\* connected T is sent join-rejected exactly once; a reject-join naming a
\* target without an entry in R's list sends nothing and changes neither
\* lobby, membership nor any socket.
C22_RejectOnlyPending ==
    [][/\ \A i \in 1..Len(emitted') :
            emitted'[i].ev = "join-rejected"
            => /\ op'.ev = "reject-join" /\ emitted'[i].to = op'.arg
               /\ sockets[op'.conn].userId = created_by[op'.roomId]
               /\ Entries(lobby, op'.roomId, op'.arg) > 0
       /\ \A h \in inflight :
            (Resumes(h) /\ h.ev = "reject-join")
            => IF op'.out = "rejected" /\ Entries(lobby, h.roomId, h.arg) > 0
               THEN /\ Entries(lobby', h.roomId, h.arg) = 0
                    /\ Live(h.arg)
                       => Count(emitted', h.arg, "join-rejected") = 1
               ELSE /\ emitted' = <<>>
                    /\ lobby' = lobby /\ rooms' = rooms
                    /\ sockets' = sockets]_vars

\* the step of the resumed accept-join h leaves its target out
AdmitsNobody(h) ==
    /\ rooms' = rooms
    /\ \A i \in 1..Len(emitted') :
          emitted'[i].ev \notin {"room-joined", "user-joined"}
    /\ Entries(lobby', h.roomId, h.arg) = 0

\* when accept-join(T) resumes with the directory confirming the caller as
\* owner, and T has no entry in the caller's room's pending list or is no
\* longer connected, membership is unchanged, no room-joined or
\* user-joined is sent and T has no entry in that list afterwards
C23_StaleTargetStep ==
    \A h \in inflight :
        (/\ Resumes(h) /\ h.ev = "accept-join"
         /\ op'.out # "denied"
         /\ \/ Entries(lobby, h.roomId, h.arg) = 0
            \/ ~Live(h.arg))
        => AdmitsNobody(h)

C24_NoOwnerActionAfterDeletion ==
    [][\A h \in inflight :
         (\/ AcceptJoinResume(h, Null)
          \/ RejectJoinResume(h, Null)
          \/ KickUserResume(h, Null))
         => /\ lobby' = lobby /\ rooms' = rooms /\ sockets' = sockets
            /\ emitted' = <<>>]_vars

\* the accept-join of a connection with the owner's identity was turned
\* down for a connected, pending target because the row is gone, before
\* the deletion has notified the room
C24_Witness ==
    /\ op.ev = "accept-join" /\ op.out = "denied"
    /\ Live(op.conn)
    /\ sockets[op.conn].userId = created_by[op.roomId]
    /\ op.roomId \notin rows /\ op.roomId \in deleting
    /\ Live(op.arg) /\ Entries(lobby, op.roomId, op.arg) > 0

\* C25: whenever accept-join admits its target, the calling connection is
\* connected and a member of the room it admits into at that moment.
C25_AdmissionNeedsPresentOwner ==
    [][\A h \in inflight :
         (Resumes(h) /\ h.ev = "accept-join" /\ op'.out = "admitted")
         => /\ Live(h.conn)
            /\ h.conn \in Range(rooms[h.roomId])]_vars

\* the connected members of room r whose identity is the room's owner
OwnerMembers(r) ==
    {m \in Range(rooms[r]) : Live(m) /\ sockets[m].userId = created_by[r]}

\* C26: when the join-room(R) of a connected non-owner parks it while a
\* connected member of R has the owner's identity, such a member is sent
\* pending-join-request with the requester's entry; and when the
\* join-room(R) of a connected owner completes while R's pending list is
\* not empty, the owner is sent pending-requests once, carrying the whole
\* list in its order.  Whichever of the two handlers resumes first, the
\* owner is sent the requester's entry.
C26_OwnerLearnsOfPending ==
    [][\A h \in inflight :
         (Resumes(h) /\ h.ev = "join-room" /\ Live(h.conn))
         => /\ (op'.out = "pending" /\ OwnerMembers(h.roomId) # {})
               => \E i \in 1..Len(emitted') :
                     /\ emitted'[i].ev = "pending-join-request"
                     /\ emitted'[i].to \in OwnerMembers(h.roomId)
                     /\ emitted'[i].data =
                           [socketId |-> h.conn,
                            userId |-> sockets[h.conn].userId,
                            displayName |-> sockets[h.conn].displayName]
            /\ (op'.out = "owner" /\ h.roomId \in DOMAIN lobby)
               => /\ Count(emitted', h.conn, "pending-requests") = 1
                  /\ CountData(emitted', h.conn, "pending-requests",
                               lobby[h.roomId]) = 1]_vars

\* an owner's join has flushed a list of two requests to it
C26_Witness ==
    /\ op.ev = "join-room" /\ op.out = "owner" /\ Live(op.conn)
    /\ op.roomId \in DOMAIN lobby /\ Len(lobby[op.roomId]) = 2
    /\ CountData(emitted, op.conn, "pending-requests", lobby[op.roomId]) = 1

\* C27: pending-join-request is sent only in the step that parks a
\* non-owner's join-room(R), at most once in that step, and only to a
\* connected member of R whose identity is R's owner; when R has no such
\* member the step sends no pending-join-request.
C27_SingleOwnerNotification ==
    [][/\ \A i \in 1..Len(emitted') :
            emitted'[i].ev = "pending-join-request"
            => /\ op'.ev = "join-room" /\ op'.out = "pending"
               /\ emitted'[i].to \in OwnerMembers(op'.roomId)
               /\ emitted'[i].data.socketId = op'.conn
       /\ Cardinality({i \in 1..Len(emitted') :
                          emitted'[i].ev = "pending-join-request"}) =< 1]_vars

\* a request was parked while two connections of the owner were members,
\* and one of them was notified
C27_Witness ==
    /\ op.ev = "join-room" /\ op.out = "pending"
    /\ Cardinality(OwnerMembers(op.roomId)) = 2
    /\ Cardinality({i \in 1..Len(emitted) :
                       emitted[i].ev = "pending-join-request"}) = 1

\* C28: an accept-join admits its target only by taking the target's one
\* entry out of the room's pending list, sending the target room-joined
\* once and each other connection user-joined at most once; an
\* accept-join that resumes when the target has no entry, as the second of
\* two calls for one target does, changes nothing and sends nothing.
C28_AdmittedAtMostOnce ==
    [][\A h \in inflight :
         (Resumes(h) /\ h.ev = "accept-join")
         => /\ op'.out = "admitted"
               => /\ Entries(lobby, h.roomId, h.arg) = 1
                  /\ Entries(lobby', h.roomId, h.arg) = 0
                  /\ Count(emitted', h.arg, "room-joined") = 1
                  /\ \A m \in Conns :
                        Count(emitted', m, "user-joined") =< 1
            /\ Entries(lobby, h.roomId, h.arg) = 0
               => /\ lobby' = lobby /\ rooms' = rooms
                  /\ sockets' = sockets /\ emitted' = <<>>]_vars

\* one accept-join has admitted the target while a second one for the
\* same target and room, called from another connection, is still
\* suspended
C28_Witness ==
    /\ op.ev = "accept-join" /\ op.out = "admitted"
    /\ \E g \in inflight :
          /\ g.ev = "accept-join" /\ g.arg = op.arg
          /\ g.roomId = op.roomId /\ g.conn # op.conn
          /\ Live(g.conn)
          /\ sockets[g.conn].userId = created_by[g.roomId]

\* C29: the step that parks a join-room(R) leaves the caller with exactly
\* one entry in R's pending list, appended at the end when it had none,
\* and leaves every other entry of every list where it was; so two
\* non-owners whose joins are suspended together both end with one entry,
\* in the order in which their handlers resumed.
C29_ConcurrentJoinsAtomic ==
    [][\A h \in inflight :
         (Resumes(h) /\ h.ev = "join-room" /\ op'.out = "pending")
         => /\ Entries(lobby', h.roomId, h.conn) = 1
            /\ lobby'[h.roomId] =
                  IF Entries(lobby, h.roomId, h.conn) > 0
                  THEN lobby[h.roomId]
                  ELSE Append(getPendingForRoom(lobby, h.roomId),
                              [socketId |-> h.conn,
                               userId |-> sockets[h.conn].userId,
                               displayName |-> sockets[h.conn].displayName])
            /\ \A r \in RoomIds \ {h.roomId} :
                  getPendingForRoom(lobby', r) = getPendingForRoom(lobby, r)]_vars

\* the first of two non-owners whose joins are suspended together has
\* been parked, the join of the second is still suspended
C29_Witness ==
    /\ op.ev = "join-room" /\ op.out = "pending" /\ Live(op.conn)
    /\ Entries(lobby, op.roomId, op.conn) = 1
    /\ \E g \in inflight :
          /\ g.ev = "join-room" /\ g.roomId = op.roomId
          /\ g.conn # op.conn /\ Live(g.conn)
          /\ sockets[g.conn].userId # created_by[g.roomId]
          /\ Entries(lobby, g.roomId, g.conn) = 0

\* C30: the pending list of a room holds its entries in the order of
\* their first add: an add for a connection without entry appends at the
\* end and any other add changes nothing; a remove takes out the
\* connection's entry and leaves the others in their order; and a room
\* without a key in the Map reads as the empty list.
C30_LobbyOrder ==
    [][/\ op'.ev = "addToLobby"
          => getPendingForRoom(lobby', op'.roomId) =
                IF Entries(lobby, op'.roomId, op'.conn) > 0
                THEN getPendingForRoom(lobby, op'.roomId)
                ELSE Append(getPendingForRoom(lobby, op'.roomId),
                            [socketId |-> op'.conn,
                             userId |-> op'.arg.userId,
                             displayName |-> op'.arg.displayName])
       /\ op'.ev = "removeFromLobby"
          => getPendingForRoom(lobby', op'.roomId) =
                SelectSeq(getPendingForRoom(lobby, op'.roomId),
                          LAMBDA e : e.socketId # op'.conn)
       /\ \A r \in RoomIds :
            r \notin DOMAIN lobby' => getPendingForRoom(lobby', r) = <<>>]_vars

\* a remove has left two entries, s3 parked before s1
C30_Witness ==
    /\ op.ev = "removeFromLobby" /\ op.out = "removed"
    /\ Len(getPendingForRoom(lobby, op.roomId)) = 2
    /\ lobby[op.roomId][1].socketId = "s3"
    /\ lobby[op.roomId][2].socketId = "s1"

\* C31: a kick-user(T) that resumes while T is not a connected member of
\* the caller's room R (T is pending, idle, disconnected, or a member only
\* of another room) changes neither membership, lobby nor any socket and
\* sends nothing; and you-were-kicked and the user-left of a kick are sent
\* only when T was a connected member of R.
C31_KickScopedToCallersRoom ==
    [][\A h \in inflight :
         (Resumes(h) /\ h.ev = "kick-user")
         => /\ ~(Live(h.arg) /\ h.arg \in Range(rooms[h.roomId]))
               => /\ rooms' = rooms /\ lobby' = lobby
                  /\ sockets' = sockets /\ emitted' = <<>>
            /\ (\E i \in 1..Len(emitted') :
                   emitted'[i].ev \in {"you-were-kicked", "user-left"})
               => /\ Live(h.arg) /\ h.arg \in Range(rooms[h.roomId])
                  /\ sockets[h.conn].userId = created_by[h.roomId]]_vars

\* the owner, whose current room is the other one, named a connected
\* member of a room that is not its current room: nothing happened
C31_Witness ==
    /\ op.ev = "kick-user" /\ op.out = "no-target"
    /\ Live(op.arg) /\ op.arg # op.conn
    /\ sockets[op.conn].userId = created_by[op.roomId]
    /\ op.arg \notin Range(rooms[op.roomId])
    /\ \E r \in RoomIds \ {op.roomId} : op.arg \in Range(rooms[r])
    /\ sockets[op.arg].roomId # Null
    /\ emitted = <<>>

\* the connected members of room r; a string that is no room id names no
\* room and has no members
LiveMembers(r) ==
    IF r \in RoomIds THEN {m \in Range(rooms[r]) : Live(m)} ELSE {}

\* the reply lists exactly the connections of M, once each, with their
\* identity and display name
ListsExactly(list, M) ==
    /\ \A c \in Conns :
          Cardinality({i \in 1..Len(list) : list[i].socketId = c})
             = IF c \in M THEN 1 ELSE 0
    /\ \A i \in 1..Len(list) :
          list[i] = Person(sockets[list[i].socketId].userId,
                           list[i].socketId,
                           sockets[list[i].socketId].displayName)

\* C32: get-participants(R) answers its caller with one list that holds
\* exactly one {connectionId, identity, displayName} record for every
\* connected member of R and none for any other connection (pending,
\* kicked, disconnected, removed by the room's deletion); the list is
\* empty when R has no members; and the call changes neither lobby nor
\* membership.
C32_ParticipantsReflectMembership ==
    [][op'.ev = "get-participants"
       => /\ Len(emitted') = 1
          /\ emitted'[1].to = op'.conn
          /\ ListsExactly(emitted'[1].data, LiveMembers(op'.roomId))
          /\ LiveMembers(op'.roomId) = {} => emitted'[1].data = <<>>
          /\ lobby' = lobby /\ rooms' = rooms]_vars

\* the same for the room ids of the directory only
C32_ForRoomIds ==
    [][(op'.ev = "get-participants" /\ op'.roomId \in RoomIds)
       => /\ Len(emitted') = 1
          /\ emitted'[1].to = op'.conn
          /\ ListsExactly(emitted'[1].data, LiveMembers(op'.roomId))
          /\ lobby' = lobby /\ rooms' = rooms]_vars

\* the rooms connection c is a member of
JoinedRooms(c) == {r \in RoomIds : c \in Range(rooms[r])}

\* C33: get-pending-requests answers its caller with one list: the
\* current pending list of a room the caller is a member of, and that of
\* its one room when it is a member of just one; the empty list when the
\* caller is a member of no room (idle, only pending, kicked, or after the
\* room's deletion); and the call changes neither lobby nor membership.
C33_PendingRequestsScoped ==
    [][op'.ev = "get-pending-requests"
       => /\ Len(emitted') = 1
          /\ emitted'[1].to = op'.conn
          /\ IF JoinedRooms(op'.conn) = {}
             THEN emitted'[1].data = <<>>
             ELSE \E r \in JoinedRooms(op'.conn) :
                     emitted'[1].data = getPendingForRoom(lobby, r)
          /\ lobby' = lobby /\ rooms' = rooms]_vars

\* C36: the notification of an uploaded recording for room R sends
\* recording-uploaded with the recording's metadata exactly once to every
\* connected member of R and to no other connection (not to the pending
\* requesters of R, not to connections that are members only of other
\* rooms), sends nothing else, leaves lobby, membership and every socket
\* unchanged, and sends nothing at all when R has no members.
C36_RecordingNotifyPureBroadcast ==
    [][(op'.ev = "recording-upload" /\ op'.out = "notified")
       => /\ \A c \in Conns :
                CountData(emitted', c, "recording-uploaded", op'.arg)
                   = IF c \in LiveMembers(op'.roomId) THEN 1 ELSE 0
          /\ Len(emitted') = Cardinality(LiveMembers(op'.roomId))
          /\ rooms[op'.roomId] = <<>> => emitted' = <<>>
          /\ lobby' = lobby /\ rooms' = rooms /\ sockets' = sockets]_vars

\* the owner, a member of R, was notified while the other connection,
\* pending in R, was not
C36_Witness ==
    /\ op.ev = "recording-upload" /\ op.out = "notified"
    /\ \E m \in LiveMembers(op.roomId) :
          /\ emitted = <<Ev(m, "recording-uploaded", op.arg)>>
          /\ \E t \in Conns \ {m} :
                Live(t) /\ Entries(lobby, op.roomId, t) > 0

\* the entries of list a that list b still holds
Kept(a, b) == SelectSeq(a, LAMBDA e : e \in Range(b))

\* C34: an entry of connection T leaves the pending list of room R only in
\* a step of accept-join(T) or reject-join(T) whose caller has R as its
\* room and the identity of R's owner, or in the step of T's own
\* disconnect; every other step (joins of other connections, kicks,
\* relays, queries, the disconnect of the owner or of anybody else, room
\* deletion, the recording notification) leaves every entry in place,
\* unchanged and in the same order.  No step removes an entry because
\* time has passed: the program has no timer.
C34_PendingEndsOnlyByDecision ==
    [][\A r \in RoomIds :
         /\ \A T \in Conns :
               (Entries(lobby, r, T) > 0 /\ Entries(lobby', r, T) = 0)
               => \/ /\ op'.ev \in {"accept-join", "reject-join"}
                     /\ op'.arg = T /\ op'.roomId = r
                     /\ sockets[op'.conn].userId = created_by[r]
                  \/ op'.ev = "disconnect" /\ op'.conn = T
         /\ \A i \in 1..Len(getPendingForRoom(lobby, r)) :
               Entries(lobby', r, lobby[r][i].socketId) > 0
               => lobby[r][i] \in Range(getPendingForRoom(lobby', r))
         /\ Kept(getPendingForRoom(lobby, r), getPendingForRoom(lobby', r))
               = Kept(getPendingForRoom(lobby', r),
                      getPendingForRoom(lobby, r))]_vars

\* the owner, a member of the room, has disconnected and the request of a
\* connected requester is still in the room's pending list
C34_Witness ==
    /\ op.ev = "disconnect" /\ op.roomId \in RoomIds
    /\ sockets[op.conn].userId = created_by[op.roomId]
    /\ \E T \in Conns \ {op.conn} :
          Live(T) /\ Entries(lobby, op.roomId, T) = 1

\* when the lookup of the accept-join, reject-join or kick-user h fails,
\* lobby, membership and every socket are as before and nothing is sent
C35_FailureStep ==
    \A h \in inflight :
        (/\ h.ev \in OwnerEvents
         /\ inflight' # inflight
         /\ op'.ev = h.ev /\ op'.conn = h.conn /\ op'.arg = h.arg
         /\ op'.out \in {"failed", "exit"})
        => /\ lobby' = lobby /\ rooms' = rooms /\ sockets' = sockets
           /\ emitted' = <<>>

\* C35: a failed directory lookup in accept-join, reject-join or kick-user
\* changes neither lobby, membership nor any socket and sends nothing
\* (C35_FailureStep), and in the state it leaves every connected socket
\* is still served: it can call join-room, and so can the caller of the
\* failed handler.
C35_OwnerLookupFailureContained ==
    /\ [][C35_FailureStep]_vars
    /\ []((op.ev \in OwnerEvents /\ op.out \in {"failed", "exit"})
           => /\ ProcessUp
              /\ \A c \in {"s1", "s2"} :
                    (Live(c) /\ \A g \in inflight : g.conn # c)
                    => \E n \in DisplayNames :
                          ENABLED JoinRoomCall(c, "r1", n))

\* the same when the process goes on after the unhandled rejection
C35_WhenProcessGoesOn ==
    [][\A h \in inflight :
         (Resumes(h) /\ h.ev \in OwnerEvents /\ op'.out = "failed")
         => /\ lobby' = lobby /\ rooms' = rooms /\ sockets' = sockets
            /\ emitted' = <<>>]_vars

\* C37: the created_by of a room never changes, and no entry of a room's
\* pending list carries the identity of that room's owner, whether the
\* room still has its row or not.
C37_OwnerNeverParked ==
    /\ [][created_by' = created_by]_vars
    /\ [](\A r \in DOMAIN lobby : \A i \in 1..Len(lobby[r]) :
             lobby[r][i].userId # created_by[r])

\* a connection that joined its own room as owner is parked in the lobby
\* of the room of the other owner
C37_Witness ==
    \E r \in DOMAIN lobby, q \in RoomIds : \E i \in 1..Len(lobby[r]) :
        /\ q # r
        /\ lobby[r][i].userId = created_by[q]
        /\ lobby[r][i].socketId \in Range(rooms[q])
        /\ op.ev = "join-room" /\ op.out = "pending"
        /\ op.conn = lobby[r][i].socketId

\* C38: when the join-room(R) of a connection with the owner's identity
\* completes, user-joined describing the caller is sent exactly once to
\* every connected socket that was a member of R before, the caller
\* excepted, and to no other connection, the caller included; and
\* pending-requests is sent to nobody but the caller, and to the caller
\* only when R's pending list is not empty.
C38_OwnerJoinBroadcast ==
    [][\A h \in inflight :
         (Resumes(h) /\ h.ev = "join-room" /\ op'.out = "owner")
         => /\ \A c \in Conns :
                  /\ Count(emitted', c, "user-joined")
                        = IF c \in LiveMembers(h.roomId) \ {h.conn}
                          THEN 1 ELSE 0
                  /\ CountData(emitted', c, "user-joined",
                               Person(sockets[h.conn].userId, h.conn,
                                      sockets[h.conn].displayName))
                        = Count(emitted', c, "user-joined")
            /\ Count(emitted', h.conn, "user-joined") = 0
            /\ \A c \in Conns :
                  Count(emitted', c, "pending-requests") > 0
                  => /\ c = h.conn
                     /\ Len(getPendingForRoom(lobby, h.roomId)) > 0
                     /\ Count(emitted', c, "pending-requests") = 1]_vars

\* an owner that was already a member has joined again while another
\* member was connected and nobody was pending: the other member was sent
\* user-joined, the caller was sent neither user-joined nor
\* pending-requests
C38_Witness ==
    /\ op.ev = "join-room" /\ op.out = "owner" /\ Live(op.conn)
    /\ \E m \in Conns \ {op.conn} :
          /\ Count(emitted, m, "user-joined") = 1
          /\ rooms[op.roomId][1] = op.conn
    /\ Count(emitted, op.conn, "user-joined") = 0
    /\ Count(emitted, op.conn, "room-joined") = 1
    /\ op.roomId \notin DOMAIN lobby
    /\ Count(emitted, op.conn, "pending-requests") = 0
====
